---- MODULE Spec2Model ----
(***************************************************************************)
(* State-machine model of the uhand glove controller:                      *)
(*   src/src/glove_controller.py  RoboticGloveController (session + codec) *)
(*   src/src/main.py              main(), the CSV replay                   *)
(* The BLE transport (bleak) is the environment: its calls are recorded in *)
(* the log `calls` and their outcomes are chosen nondeterministically.     *)
(***************************************************************************)
EXTENDS Integers, Sequences, FiniteSets, TLC

VARIABLES
    client,             \* self.client: 0 (None) or the handle of a BleakClient
    is_connected,       \* self.is_connected
    write_char_object,  \* self.write_char_object: NoChar or a characteristic
    read_char_object,   \* self.read_char_object: NoChar or a characteristic
    pc,                 \* where the controller coroutine is suspended
    link,               \* transport: the client handles whose link is open
    calls,              \* transport: the calls issued on the current client, in order
    submitted,          \* history: the commands accepted on the current client
    nio,                \* sends and reads passed to the transport so far
    nfaults,            \* transport calls that raised so far
    ev,                 \* the last controller step: operation, return value, prints
    args,               \* history: the arguments of the last send-family call
    mpc,                \* main(): where the replay coroutine is
    df,                 \* main(): the rows read from the CSV file
    sample_rate,        \* main(): SAMPLE_RATE, the sampling stride
    index,              \* main(): index of the row the loop is at
    time_to_wait,       \* main(): time accumulated since the last send
    waits,              \* history: the durations main() has slept, in order
    exit                \* history: the path main() left its try block by

ctl    == <<client, is_connected, write_char_object, read_char_object>>
glove  == <<client, is_connected, write_char_object, read_char_object,
            pc, link, calls, submitted, nio, nfaults, ev, args>>
replay == <<mpc, df, sample_rate, index, time_to_wait, waits, exit>>
vars   == <<client, is_connected, write_char_object, read_char_object,
            pc, link, calls, submitted, nio, nfaults, ev, args,
            mpc, df, sample_rate, index, time_to_wait, waits, exit>>

----------------------------------------------------------------------------
(* Bounds of the model *)

MaxSessions == 2     \* BleakClient objects created
MaxIo       == 2     \* send-family and read calls passed to the transport
MaxFaults   == 1     \* transport calls that raise
MaxRows     == 3     \* rows of a recording

----------------------------------------------------------------------------
(* Python values *)

NoClient == 0
NoChar   == [uuid |-> "None", conn |-> 0, idx |-> 0]

(* A return value: None, a bool or a str *)
PyNone    == [t |-> "None", b |-> FALSE, s |-> <<>>]
PyBool(b) == [t |-> "bool", b |-> b, s |-> <<>>]
PyStr(s)  == [t |-> "str", b |-> FALSE, s |-> s]
(* An exception leaving the call instead of a return value *)
PyRaise   == [t |-> "raise", b |-> FALSE, s |-> <<>>]

(* Text is a sequence of one-character strings. *)
Dollar == "$"

endswith(s, c) == Len(s) > 0 /\ s[Len(s)] = c

DigitChar(d) == CASE d = 0 -> "0" [] d = 1 -> "1" [] d = 2 -> "2" [] d = 3 -> "3"
                  [] d = 4 -> "4" [] d = 5 -> "5" [] d = 6 -> "6" [] d = 7 -> "7"
                  [] d = 8 -> "8" [] d = 9 -> "9"

RECURSIVE NatStr(_)
NatStr(n) == IF n < 10 THEN <<DigitChar(n)>>
             ELSE NatStr(n \div 10) \o <<DigitChar(n % 10)>>

(* f"{n}" for an int *)
IntStr(n) == IF n < 0 THEN <<"-">> \o NatStr(0 - n) ELSE NatStr(n)

Min(a, b) == IF a < b THEN a ELSE b
Max(a, b) == IF a > b THEN a ELSE b

(* chr(ord('A') + i) *)
Letter(i) == CASE i = 0 -> "A" [] i = 1 -> "B" [] i = 2 -> "C"
               [] i = 3 -> "D" [] i = 4 -> "E" [] i = 5 -> "F"

----------------------------------------------------------------------------
(* Module constants of glove_controller.py and the identifiers peers use *)

UART_SERVICE_UUID         == "FFF0"
WRITE_CHARACTERISTIC_UUID == "0000FFE1-0000-1000-8000-00805F9B34FB"
READ_CHARACTERISTIC_UUID  == "0000FFE1-0000-1000-8000-00805F9B34FB"

(* str.upper() on the identifiers that occur in the model *)
Upper(s) == CASE s = "fff0" -> "FFF0"
              [] s = "0000fff0-0000-1000-8000-00805f9b34fb"
                     -> "0000FFF0-0000-1000-8000-00805F9B34FB"
              [] s = "0000ffe1-0000-1000-8000-00805f9b34fb"
                     -> "0000FFE1-0000-1000-8000-00805F9B34FB"
              [] s = "0000ffe2-0000-1000-8000-00805f9b34fb"
                     -> "0000FFE2-0000-1000-8000-00805F9B34FB"
              [] s = "0000180a-0000-1000-8000-00805f9b34fb"
                     -> "0000180A-0000-1000-8000-00805F9B34FB"
              [] OTHER -> s

----------------------------------------------------------------------------
(* The peers a connection may reach: each is the list of services that     *)
(* client.services enumerates, a service being its identifier and the list *)
(* of its characteristics' identifiers.                                    *)

Svc(u, cs) == [uuid |-> u, characteristics |-> cs]

PeerGlove   == <<Svc("0000180a-0000-1000-8000-00805f9b34fb", <<>>),
                 Svc("0000fff0-0000-1000-8000-00805f9b34fb",
                     <<"0000ffe1-0000-1000-8000-00805f9b34fb">>)>>
PeerNoSvc   == <<Svc("0000180a-0000-1000-8000-00805f9b34fb",
                     <<"0000ffe1-0000-1000-8000-00805f9b34fb">>)>>
PeerNoWrite == <<Svc("fff0", <<"0000ffe2-0000-1000-8000-00805f9b34fb">>)>>
PeerTwin    == <<Svc("FFF0", <<"0000ffe1-0000-1000-8000-00805f9b34fb",
                               "0000ffe2-0000-1000-8000-00805f9b34fb",
                               "0000FFE1-0000-1000-8000-00805F9B34FB">>),
                 Svc("fff0", <<>>)>>

Peers == {PeerGlove, PeerNoSvc, PeerNoWrite, PeerTwin}

(* The characteristic object at position i of service `svc` on connection h *)
CharOf(h, svc, i) == [uuid |-> svc.characteristics[i], conn |-> h, idx |-> i]

----------------------------------------------------------------------------
(* Transport (bleak) boundary: the log of calls and the fault budget *)

Call(op, h, ch, data, ok) ==
    [op |-> op, client |-> h, char |-> ch, data |-> data, ok |-> ok]

(* Calls in `log` after position n that raised *)
NewFaults(log, n) == Cardinality({i \in DOMAIN log : i > n /\ ~log[i].ok})

(* With k calls having raised since the step began, another may raise *)
MayFaultAfter(k) == nfaults + k < MaxFaults

MayFault == MayFaultAfter(0)

(* What a transport write or read does when called with client h and       *)
(* characteristic ch: it raises on a closed link or without a              *)
(* characteristic object, and otherwise returns or (while the budget       *)
(* lasts) raises.                                                          *)
IoOutcomes(log, h, ch) ==
    IF h \notin link \/ ch = NoChar THEN {FALSE}
    ELSE IF MayFaultAfter(NewFaults(log, Len(calls))) THEN {TRUE, FALSE}
    ELSE {TRUE}

(* client.disconnect(): returns, or raises leaving the link open or closed *)
CloseOutcomes ==
    {[ok |-> TRUE, open |-> FALSE]}
    \cup (IF MayFault THEN {[ok |-> FALSE, open |-> TRUE],
                            [ok |-> FALSE, open |-> FALSE]}
          ELSE {})

----------------------------------------------------------------------------
(* Endpoint resolution inside connect() *)

ServiceMatches(u) ==
    \/ Upper(u) = Upper(UART_SERVICE_UUID)
    \/ /\ Len(UART_SERVICE_UUID) = 4
       /\ Upper(u) = "0000" \o Upper(UART_SERVICE_UUID)
                            \o "-0000-1000-8000-00805F9B34FB"

(* Index of the service the loop breaks on, 0 when found_service stays None *)
FoundService(services) ==
    LET hits == {i \in DOMAIN services : ServiceMatches(services[i].uuid)}
    IN  IF hits = {} THEN 0
        ELSE CHOOSE i \in hits : \A j \in hits : i <= j

(* The loop over found_service.characteristics from position i on, with    *)
(* the current values w, r of write_char_object and read_char_object       *)
RECURSIVE ScanChars(_, _, _, _, _)
ScanChars(h, svc, i, w, r) ==
    IF i > Len(svc.characteristics) THEN [w |-> w, r |-> r]
    ELSE LET ch == CharOf(h, svc, i)
         IN  ScanChars(h, svc, i + 1,
                 IF Upper(ch.uuid) = Upper(WRITE_CHARACTERISTIC_UUID) THEN ch ELSE w,
                 IF Upper(ch.uuid) = Upper(READ_CHARACTERISTIC_UUID) THEN ch ELSE r)

----------------------------------------------------------------------------
(* RoboticGloveController *)

Ev(op, ret, out) == [op |-> op, ret |-> ret, out |-> out]

(* main.py: the configured stride, and how main() left its try block, with *)
(* whether the link of the client was open at that moment                  *)
SAMPLE_RATE == 1

Exit(path, linked) == [path |-> path, linked |-> linked]

Init ==
    /\ client = NoClient
    /\ is_connected = FALSE
    /\ write_char_object = NoChar
    /\ read_char_object = NoChar
    /\ pc = "idle"
    /\ link = {}
    /\ calls = <<>>
    /\ submitted = <<>>
    /\ nio = 0
    /\ nfaults = 0
    /\ ev = Ev("init", PyNone, <<>>)
    /\ args = <<>>
    /\ mpc = "start"
    /\ df = <<>>
    /\ sample_rate = SAMPLE_RATE
    /\ index = 0
    /\ time_to_wait = 0
    /\ waits = <<>>
    /\ exit = Exit("running", FALSE)

(* Variant of ConnectCall without the already-connected check *)
ConnectCall_NoGuard ==
    /\ pc = "idle"
    /\ client < MaxSessions
    /\ client' = client + 1
    /\ pc' = "connect_open"
    /\ ev' = Ev("connect", PyNone, <<"Attempting to connect">>)
    /\ calls' = <<>>
    /\ submitted' = <<>>
    /\ UNCHANGED <<is_connected, write_char_object, read_char_object,
                   link, nio, nfaults, args>>

(* connect(), up to the await on client.connect() *)
ConnectCall ==
    /\ pc = "idle"
    /\ IF is_connected /\ client # NoClient
       THEN /\ ev' = Ev("connect", PyBool(TRUE), <<"Already connected.">>)
            /\ UNCHANGED <<ctl, pc, link, calls, submitted, nio, nfaults, args>>
       ELSE /\ client < MaxSessions
            /\ client' = client + 1
            /\ pc' = "connect_open"
            /\ ev' = Ev("connect", PyNone, <<"Attempting to connect">>)
            /\ calls' = <<>>
            /\ submitted' = <<>>
            /\ UNCHANGED <<is_connected, write_char_object, read_char_object,
                           link, nio, nfaults, args>>

(* Variant of ConnectOpenFailed whose handler does not catch the error *)
ConnectOpenFailed_Propagates ==
    /\ pc = "connect_open"
    /\ MayFault
    /\ calls' = Append(calls, Call("connect", client, NoChar, <<>>, FALSE))
    /\ pc' = "idle"
    /\ ev' = Ev("connect", PyRaise, <<>>)
    /\ nfaults' = nfaults + 1
    /\ UNCHANGED <<ctl, link, submitted, nio, args>>

(* connect() resumed after client.connect() raised *)
ConnectOpenFailed ==
    /\ pc = "connect_open"
    /\ MayFault
    /\ calls' = Append(calls, Call("connect", client, NoChar, <<>>, FALSE))
    /\ is_connected' = FALSE
    /\ pc' = "idle"
    /\ ev' = Ev("connect", PyBool(FALSE), <<"Error connecting to BLE device">>)
    /\ nfaults' = nfaults + 1
    /\ UNCHANGED <<client, write_char_object, read_char_object, link, submitted,
                   nio, args>>

(* connect() resumed after client.connect() returned, reaching peer        *)
(* `services` (logged as what the call made available): resolution up to   *)
(* the next await or to return True                                        *)
ConnectOpened(services) ==
    /\ pc = "connect_open"
    /\ link' = link \cup {client}
    /\ calls' = Append(calls, Call("connect", client, NoChar, services, TRUE))
    /\ LET f == FoundService(services)
       IN  IF f = 0
           THEN /\ is_connected' = TRUE
                /\ pc' = "connect_close"
                /\ ev' = Ev("connect", PyNone, <<"ERROR: Could not find service">>)
                /\ UNCHANGED <<write_char_object, read_char_object>>
           ELSE LET res == ScanChars(client, services[f], 1,
                                     write_char_object, read_char_object)
                IN  /\ write_char_object' = res.w
                    /\ read_char_object' = res.r
                    /\ is_connected' = TRUE
                    /\ IF res.w = NoChar
                       THEN /\ pc' = "connect_close"
                            /\ ev' = Ev("connect", PyNone,
                                        <<"ERROR: Could not find write characteristic">>)
                       ELSE /\ pc' = "idle"
                            /\ ev' = Ev("connect", PyBool(TRUE), <<"Connected">>)
    /\ UNCHANGED <<client, submitted, nio, nfaults, args>>

(* connect() resumed after the client.disconnect() of a failed resolution: *)
(* it returned (lines 54-55, 71-72) or raised (lines 76-79)                *)
ConnectClosed(o) ==
    /\ pc = "connect_close"
    /\ link' = IF o.open THEN link ELSE link \ {client}
    /\ calls' = Append(calls, Call("disconnect", client, NoChar, <<>>, o.ok))
    /\ is_connected' = FALSE
    /\ pc' = "idle"
    /\ ev' = Ev("connect", PyBool(FALSE),
                IF o.ok THEN ev.out ELSE ev.out \o <<"Error connecting to BLE device">>)
    /\ nfaults' = nfaults + NewFaults(calls', Len(calls))
    /\ UNCHANGED <<client, write_char_object, read_char_object, submitted, nio, args>>

(* disconnect(), up to the await on client.disconnect() *)
DisconnectCall ==
    /\ pc = "idle"
    /\ IF is_connected /\ client # NoClient
       THEN /\ pc' = "disconnect_close"
            /\ ev' = Ev("disconnect", PyNone, <<>>)
       ELSE /\ pc' = pc
            /\ ev' = Ev("disconnect", PyNone, <<"Not connected.">>)
    /\ UNCHANGED <<ctl, link, calls, submitted, nio, nfaults, args>>

(* disconnect() resumed after client.disconnect() returned or raised *)
DisconnectClosed(o) ==
    /\ pc = "disconnect_close"
    /\ link' = IF o.open THEN link ELSE link \ {client}
    /\ calls' = Append(calls, Call("disconnect", client, NoChar, <<>>, o.ok))
    /\ is_connected' = IF o.ok THEN FALSE ELSE is_connected
    /\ pc' = "idle"
    /\ ev' = Ev("disconnect", PyNone,
                IF o.ok THEN <<"Disconnected from BLE device.">>
                ELSE <<"Error disconnecting">>)
    /\ nfaults' = nfaults + NewFaults(calls', Len(calls))
    /\ UNCHANGED <<client, write_char_object, read_char_object, submitted, nio, args>>

(* _send_command(user_input) applied to the transport log `log`, the write *)
(* ending as `ok` says: the new log and the messages printed               *)
(* Variant of Frame that appends the delimiter whatever the text ends with *)
Frame_AlwaysAppends(user_input) == user_input \o <<Dollar>>

Frame(user_input) ==
    IF endswith(user_input, Dollar) THEN user_input ELSE user_input \o <<Dollar>>

(* Variant of SendCommand without the is_connected check *)
SendCommand_NoGuard(log, user_input, ok) ==
    [log |-> Append(log, Call("write", client, write_char_object,
                              Frame(user_input), ok)),
     out |-> IF ok THEN <<>> ELSE <<"Error sending command">>]

(* Variant of SendCommand that skips a frame equal to the one just written *)
SendCommand_Coalesce(log, user_input, ok) ==
    IF ~is_connected \/ client = NoClient
    THEN [log |-> log, out |-> <<"Not connected to BLE device. Cannot send command.">>]
    ELSE IF log # <<>> /\ log[Len(log)].op = "write"
            /\ log[Len(log)].data = Frame(user_input)
    THEN [log |-> log, out |-> <<>>]
    ELSE [log |-> Append(log, Call("write", client, write_char_object,
                                   Frame(user_input), ok)),
          out |-> IF ok THEN <<>> ELSE <<"Error sending command">>]

SendCommand(log, user_input, ok) ==
    IF ~is_connected \/ client = NoClient
    THEN [log |-> log, out |-> <<"Not connected to BLE device. Cannot send command.">>]
    ELSE [log |-> Append(log, Call("write", client, write_char_object,
                                   Frame(user_input), ok)),
          out |-> IF ok THEN <<>> ELSE <<"Error sending command">>]

(* Successive _send_command calls, one per element of `inputs` *)
RECURSIVE SendEach(_, _, _)
SendEach(log, inputs, oks) ==
    IF inputs = <<>> THEN [log |-> log, out |-> <<>>]
    ELSE LET one  == SendCommand(log, Head(inputs), Head(oks))
             rest == SendEach(one.log, Tail(inputs), Tail(oks))
         IN  [log |-> rest.log, out |-> one.out \o rest.out]

(* The outcome vectors the transport can produce for these calls *)
RECURSIVE Possible(_, _, _)
Possible(log, inputs, oks) ==
    IF inputs = <<>> THEN TRUE
    ELSE /\ Head(oks) \in IoOutcomes(log, client, write_char_object)
         /\ Possible(SendCommand(log, Head(inputs), Head(oks)).log,
                     Tail(inputs), Tail(oks))

(* The caller hands over something to send while is_connected is true *)
Accepted(inputs) == inputs # <<>> /\ is_connected /\ client # NoClient

(* Variant of Send that treats a failed write as a disconnection *)
Send_FailureDisconnects(op, inputs, pre, post) ==
    /\ pc = "idle"
    /\ \E oks \in [1 .. Len(inputs) -> BOOLEAN] :
          /\ Possible(calls, inputs, oks)
          /\ LET r == SendEach(calls, inputs, oks)
             IN  /\ calls' = r.log
                 /\ submitted' = IF Accepted(inputs)
                                 THEN Append(submitted, [op |-> op, inputs |-> inputs])
                                 ELSE submitted
                 /\ nio' = IF Accepted(inputs) THEN nio + 1 ELSE nio
                 /\ nfaults' = nfaults + NewFaults(r.log, Len(calls))
                 /\ is_connected' = IF NewFaults(r.log, Len(calls)) > 0 THEN FALSE
                                    ELSE is_connected
                 /\ ev' = Ev(op, PyNone, pre \o r.out \o post)
    /\ UNCHANGED <<client, write_char_object, read_char_object, pc, link>>

(* A send-family method that passes `inputs` to _send_command in turn,     *)
(* after printing `pre` and printing `post` after each call                *)
Send(op, inputs, pre, post) ==
    /\ pc = "idle"
    /\ \E oks \in [1 .. Len(inputs) -> BOOLEAN] :
          /\ Possible(calls, inputs, oks)
          /\ LET r == SendEach(calls, inputs, oks)
             IN  /\ calls' = r.log
                 /\ submitted' = IF Accepted(inputs)
                                 THEN Append(submitted, [op |-> op, inputs |-> inputs])
                                 ELSE submitted
                 /\ nio' = IF Accepted(inputs) THEN nio + 1 ELSE nio
                 /\ nfaults' = nfaults + NewFaults(r.log, Len(calls))
                 /\ ev' = Ev(op, PyNone, pre \o r.out \o post)
    /\ UNCHANGED <<ctl, pc, link>>

(* _send_command(user_input) called directly (interactive_controller.py) *)
SendRaw(user_input) ==
    /\ Send("_send_command", <<user_input>>, <<>>, <<>>)
    /\ args' = <<user_input>>

Clamp(angle) == Max(0, Min(180, angle))

(* Variant of ServoInputs that moves the index into 0..5 instead of        *)
(* returning                                                               *)
ServoInputs_ClampsIndex(servo_index, angle) ==
    << <<Letter(Max(0, Min(5, servo_index)))>>
       \o IntStr(IF ~(0 <= angle /\ angle <= 180) THEN Clamp(angle) ELSE angle) >>

(* set_servo_angle: what it passes to _send_command and what it prints *)
ServoInputs(servo_index, angle) ==
    IF ~(0 <= servo_index /\ servo_index <= 5) THEN <<>>
    ELSE << <<Letter(servo_index)>>
            \o IntStr(IF ~(0 <= angle /\ angle <= 180) THEN Clamp(angle) ELSE angle) >>

ServoPrints(servo_index, angle) ==
    IF ~(0 <= servo_index /\ servo_index <= 5) THEN <<"ERROR: Servo index">>
    ELSE IF ~(0 <= angle /\ angle <= 180) THEN <<"WARNING: Clamping.">>
    ELSE <<>>

SetServoAngle(servo_index, angle) ==
    /\ Send("set_servo_angle", ServoInputs(servo_index, angle),
            ServoPrints(servo_index, angle), <<>>)
    /\ args' = <<servo_index, angle>>

(* main_bleak.py, the variant of the controller whose connect, disconnect  *)
(* and read_data are those above: its set_servo_angle, and the             *)
(* command_string its _send_command(command_char, value) formats           *)
BleakServoInputs(servo_index, angle) ==
    IF ~(0 <= servo_index /\ servo_index <= 5) THEN <<>>
    ELSE IF ~(0 <= angle /\ angle <= 180) THEN <<>>
    ELSE << <<Letter(servo_index)>> \o IntStr(angle) \o <<Dollar>> >>

BleakServoPrints(servo_index, angle) ==
    IF ~(0 <= servo_index /\ servo_index <= 5)
    THEN <<"Servo index must be between 0 and 5.">>
    ELSE IF ~(0 <= angle /\ angle <= 180)
    THEN <<"Angle must be between 0 and 180 degrees.">>
    ELSE <<>>

BleakSetServoAngle(servo_index, angle) ==
    /\ Send("main_bleak.set_servo_angle", BleakServoInputs(servo_index, angle),
            BleakServoPrints(servo_index, angle), <<>>)
    /\ args' = <<servo_index, angle>>

(* Variant of CommandParts that formats the angles as given *)
RECURSIVE CommandParts_NoClamp(_, _)
CommandParts_NoClamp(angles, i) ==
    IF i > Len(angles) THEN <<>>
    ELSE (<<Letter(i - 1)>> \o IntStr(angles[i]) \o <<Dollar>>)
         \o CommandParts_NoClamp(angles, i + 1)

(* set_all_servos_batch: "".join(command_parts) *)
RECURSIVE CommandParts(_, _)
CommandParts(angles, i) ==
    IF i > Len(angles) THEN <<>>
    ELSE (<<Letter(i - 1)>> \o IntStr(Clamp(angles[i])) \o <<Dollar>>)
         \o CommandParts(angles, i + 1)

SetAllServosBatch(angles) ==
    /\ IF Len(angles) # 5
       THEN Send("set_all_servos_batch", <<>>,
                 <<"ERROR: set_all_servos_batch requires a list of 5 angles.">>, <<>>)
       ELSE Send("set_all_servos_batch", <<CommandParts(angles, 1)>>,
                 <<"final_command">>, <<>>)
    /\ args' = <<angles>>

(* set_all_servos_angle: set_servo_angle(i, angle) for i in range(5) *)
SetAllServosAngle(angle) ==
    /\ Send("set_all_servos_angle",
            ServoInputs(0, angle) \o ServoInputs(1, angle) \o ServoInputs(2, angle)
              \o ServoInputs(3, angle) \o ServoInputs(4, angle),
            ServoPrints(0, angle), <<"Set all servos to">>)
    /\ args' = <<angle>>

(* bytes.decode("utf-8", errors="ignore"): invalid bytes are dropped *)
BadByte == "\\xff"

RECURSIVE Decode(_)
Decode(data) ==
    IF data = <<>> THEN <<>>
    ELSE (IF Head(data) = BadByte THEN <<>> ELSE <<Head(data)>>) \o Decode(Tail(data))

(* read_data(), the transport read returning `data` or raising *)
ReadData(data) ==
    /\ pc = "idle"
    /\ IF ~is_connected \/ read_char_object = NoChar
       THEN /\ ev' = Ev("read_data", PyNone, <<"Cannot read">>)
            /\ UNCHANGED <<calls, nio, nfaults>>
       ELSE /\ nio' = nio + 1
            /\ \E ok \in IoOutcomes(calls, client, read_char_object) :
                 /\ calls' = Append(calls, Call("read", client, read_char_object,
                                            IF ok THEN data ELSE <<>>, ok))
                 /\ nfaults' = nfaults + NewFaults(calls', Len(calls))
                 /\ ev' = IF ok THEN Ev("read_data", PyStr(Decode(data)), <<>>)
                          ELSE Ev("read_data", PyNone, <<"Error reading">>)
    /\ UNCHANGED <<ctl, pc, link, submitted, args>>

(* main_bleak.py main(), lines 199-220: one line typed in the loop that    *)
(* follows a successful connect() is written to the transport directly,    *)
(* and a response is read when a read characteristic is held               *)
BleakMainSend(user_input, data) ==
    /\ pc = "idle"
    /\ is_connected /\ client # NoClient
    /\ \E ok \in IoOutcomes(calls, client, write_char_object) :
          LET w    == Append(calls, Call("write", client, write_char_object,
                                         Frame(user_input), ok))
              rd   == ok /\ read_char_object # NoChar
          IN  \E ok2 \in (IF rd THEN IoOutcomes(w, client, read_char_object)
                           ELSE {FALSE}) :
                /\ calls' = IF rd
                            THEN Append(w, Call("read", client, read_char_object,
                                                IF ok2 THEN data ELSE <<>>, ok2))
                            ELSE w
                /\ ev' = Ev("main_bleak.main", PyNone,
                            IF ok /\ (~rd \/ ok2) THEN <<>>
                            ELSE <<"Error during communication">>)
    /\ submitted' = Append(submitted, [op |-> "main_bleak.main",
                                       inputs |-> <<user_input>>])
    /\ nio' = nio + 1
    /\ nfaults' = nfaults + NewFaults(calls', Len(calls))
    /\ args' = <<user_input>>
    /\ UNCHANGED <<ctl, pc, link>>

----------------------------------------------------------------------------
(* Callers that make one call at a time, with arguments from small sets *)

Texts     == { <<"A", "9", "0">>, <<"Z", "1", "$">> }
ServoArgs == { <<1, 200>>, <<6, 90>> }
BatchArgs == { <<10, 20, 30, 40, 50>>, <<1, 2, 3, 4>> }
AllAngles == { 45 }
ReadBytes == { <<"O", BadByte, "K">> }

(* The callers stop sending and reading on a connected controller after    *)
(* MaxIo such calls; calls on a controller that is not connected are free  *)
IoBudget == is_connected => nio < MaxIo

(* Any lifecycle call against any peer and any transport outcome, with the *)
(* sends of the two drivers: a raw line and a five-angle batch             *)
Next ==
    \/ ConnectCall /\ UNCHANGED replay
    \/ ConnectOpenFailed /\ UNCHANGED replay
    \/ \E services \in Peers : ConnectOpened(services) /\ UNCHANGED replay
    \/ \E o \in CloseOutcomes : ConnectClosed(o) /\ UNCHANGED replay
    \/ DisconnectCall /\ UNCHANGED replay
    \/ \E o \in CloseOutcomes : DisconnectClosed(o) /\ UNCHANGED replay
    \/ IoBudget /\ SendRaw(<<"A", "9", "0">>) /\ UNCHANGED replay
    \/ IoBudget /\ SetAllServosBatch(<<10, 20, 30, 40, 50>>) /\ UNCHANGED replay
    \/ IoBudget /\ UNCHANGED replay /\ \E data \in ReadBytes : ReadData(data)

Spec == Init /\ [][Next]_vars

(* Sessions with the glove whose connect and disconnect go through, with   *)
(* every send-family method and its argument cases                         *)
IoNext ==
    \/ ConnectCall /\ UNCHANGED replay
    \/ ConnectOpened(PeerGlove) /\ UNCHANGED replay
    \/ DisconnectCall /\ UNCHANGED replay
    \/ DisconnectClosed([ok |-> TRUE, open |-> FALSE]) /\ UNCHANGED replay
    \/ IoBudget /\ UNCHANGED replay /\ \E t \in Texts : SendRaw(t)
    \/ IoBudget /\ UNCHANGED replay /\ \E a \in ServoArgs : SetServoAngle(a[1], a[2])
    \/ IoBudget /\ UNCHANGED replay /\ \E angles \in BatchArgs : SetAllServosBatch(angles)
    \/ IoBudget /\ UNCHANGED replay /\ \E angle \in AllAngles : SetAllServosAngle(angle)
    \/ IoBudget /\ UNCHANGED replay /\ \E data \in ReadBytes : ReadData(data)

IoSpec == Init /\ [][IoNext]_vars

(* _send_command(user_input) run by a second task while connect() or       *)
(* disconnect() is suspended at its await: the check of lines 116-118 and  *)
(* the write of line 127 run without an await between them, on the fields  *)
(* as the suspended call has left them. `ev` stays that of the suspended   *)
(* call.                                                                   *)
TaskSendRaw(user_input) ==
    /\ pc \in {"connect_open", "connect_close", "disconnect_close"}
    /\ \E ok \in IoOutcomes(calls, client, write_char_object) :
          calls' = SendCommand(calls, user_input, ok).log
    /\ UNCHANGED ev
    /\ submitted' = IF Accepted(<<user_input>>)
                    THEN Append(submitted, [op |-> "_send_command",
                                            inputs |-> <<user_input>>])
                    ELSE submitted
    /\ nio' = IF Accepted(<<user_input>>) THEN nio + 1 ELSE nio
    /\ nfaults' = nfaults + NewFaults(calls', Len(calls))
    /\ args' = <<user_input>>
    /\ UNCHANGED <<ctl, pc, link>>

(* The lifecycle calls against any peer with a task that sends raw lines,  *)
(* between the calls and at their awaits                                   *)
TaskNext ==
    \/ ConnectCall /\ UNCHANGED replay
    \/ ConnectOpenFailed /\ UNCHANGED replay
    \/ \E services \in Peers : ConnectOpened(services) /\ UNCHANGED replay
    \/ \E o \in CloseOutcomes : ConnectClosed(o) /\ UNCHANGED replay
    \/ DisconnectCall /\ UNCHANGED replay
    \/ \E o \in CloseOutcomes : DisconnectClosed(o) /\ UNCHANGED replay
    \/ IoBudget /\ SendRaw(<<"A", "9", "0">>) /\ UNCHANGED replay
    \/ IoBudget /\ TaskSendRaw(<<"A", "9", "0">>) /\ UNCHANGED replay

TaskSpec == Init /\ [][TaskNext]_vars

(* Sessions with the glove in which one command is issued, its arguments   *)
(* ranging over the cases of the codec: the lines typed to the interactive *)
(* loop, the servo indices and angles around their bounds, and angle lists *)
(* of four, five and six elements                                          *)
RawTexts    == { <<"A", "9", "0">>, <<"A", "9", "0", "$">>, <<"Z", "1", "$", "$">>,
                 <<"$">>, <<>> }
ServoIndex  == { 0 - 1, 0, 1, 2, 3, 4, 5, 6 }
ServoAngle  == { 0 - 5, 0 - 1, 0, 1, 90, 179, 180, 181, 200 }
AngleLists  == { <<10, 20, 30, 40, 50>>, <<0 - 5, 200, 0, 180, 90>>,
                 <<181, 0 - 1, 179, 1, 7>>, <<1, 2, 3, 4>>, <<1, 2, 3, 4, 5, 6>>, <<>> }

(* One command is sent per run, in whatever state the session is *)
OneCommand == args = <<>>

CodecNext ==
    \/ ConnectCall /\ UNCHANGED replay
    \/ ConnectOpened(PeerGlove) /\ UNCHANGED replay
    \/ DisconnectCall /\ UNCHANGED replay
    \/ DisconnectClosed([ok |-> TRUE, open |-> FALSE]) /\ UNCHANGED replay
    \/ OneCommand /\ UNCHANGED replay /\ \E t \in RawTexts : SendRaw(t)
    \/ OneCommand /\ UNCHANGED replay
          /\ \E i \in ServoIndex, a \in ServoAngle : SetServoAngle(i, a)
    \/ OneCommand /\ UNCHANGED replay
          /\ \E i \in ServoIndex, a \in ServoAngle : BleakSetServoAngle(i, a)
    \/ OneCommand /\ UNCHANGED replay /\ \E angles \in AngleLists : SetAllServosBatch(angles)
    \/ OneCommand /\ UNCHANGED replay
          /\ \E t \in RawTexts, data \in ReadBytes : BleakMainSend(t, data)

CodecSpec == Init /\ [][CodecNext]_vars

----------------------------------------------------------------------------
(* main.py: the replay of a recording *)

(* A row: its delta time in ticks and the five finger values as numerators *)
(* over ValueDen; an empty cell of the file reads as NaN                   *)
ValueDen == 16
NaN      == 0 - 999

Row(dt, f) == [dt |-> dt, f |-> f]

Rows == { Row(5, <<0, 0, 0, 0, 0>>),
          Row(3, <<16, 16, 16, 16, 16>>),
          Row(0, <<3, 0 - 1, 17, 8, 1>>),
          Row(2, <<6, NaN, 8, 8, 8>>) }

RECURSIVE SeqsUpTo(_, _)
SeqsUpTo(S, n) ==
    IF n = 0 THEN { <<>> }
    ELSE LET shorter == SeqsUpTo(S, n - 1)
         IN  shorter \cup { Append(q, x) : q \in shorter, x \in S }

Recordings == SeqsUpTo(Rows, MaxRows)
Strides    == { 1, 2 }

(* int(x) of the rational a / b, b > 0: truncation toward zero *)
PyInt(a, b) == IF a >= 0 THEN a \div b ELSE 0 - ((0 - a) \div b)

(* lines 56-60: the five angles of a row *)
Angles(row) ==
    [k \in 1 .. 5 |-> Max(0, Min(180, PyInt(row.f[k] * 180, ValueDen)))]

(* lines 26-34: read the CSV file and construct the controller *)
MainLoad ==
    /\ mpc = "start"
    /\ \/ /\ mpc' = "done"
          /\ exit' = Exit("csv_error", FALSE)
          /\ UNCHANGED <<df, sample_rate>>
       \/ /\ df' \in Recordings
          /\ sample_rate' \in Strides
          /\ mpc' = "connect"
          /\ UNCHANGED exit
    /\ UNCHANGED <<glove, index, time_to_wait, waits>>

(* line 37: await glove.connect() *)
MainConnect ==
    /\ mpc = "connect"
    /\ ConnectCall
    /\ mpc' = "connecting"
    /\ UNCHANGED <<df, sample_rate, index, time_to_wait, waits, exit>>

(* main() awaits a controller call, which runs on *)
MainAwaits == mpc \in {"connecting", "closing"}

(* lines 38-46: after connect() returned *)
MainConnected ==
    /\ mpc = "connecting"
    /\ pc = "idle"
    /\ IF ~is_connected
       THEN /\ mpc' = "done"
            /\ exit' = Exit("connect_failed", FALSE)
            /\ UNCHANGED <<index, time_to_wait>>
       ELSE /\ mpc' = "loop"
            /\ index' = 0
            /\ time_to_wait' = 0
            /\ UNCHANGED exit
    /\ UNCHANGED <<glove, df, sample_rate, waits>>

(* int() of a finger value raises ValueError on NaN *)
IntRaises(row) == \E k \in 1 .. 5 : row.f[k] = NaN

(* Variant of MainRow that waits for the last sample's delta time only *)
MainRow_LastDeltaOnly ==
    /\ mpc = "loop"
    /\ index < Len(df)
    /\ LET row == df[index + 1]
       IN  /\ time_to_wait' = row.dt
           /\ IF index % sample_rate = 0
              THEN /\ ~IntRaises(row)
                   /\ SetAllServosBatch(Angles(row))
                   /\ mpc' = "sleep"
                   /\ UNCHANGED index
              ELSE /\ index' = index + 1
                   /\ UNCHANGED <<mpc, glove>>
    /\ UNCHANGED <<df, sample_rate, waits, exit>>

(* lines 48-70: one iteration of the loop, up to the sleep or the continue *)
MainRow ==
    /\ mpc = "loop"
    /\ index < Len(df)
    /\ LET row == df[index + 1]
       IN  /\ time_to_wait' = time_to_wait + row.dt
           /\ IF index % sample_rate = 0
              THEN /\ ~IntRaises(row)
                   /\ SetAllServosBatch(Angles(row))
                   /\ mpc' = "sleep"
                   /\ UNCHANGED index
              ELSE /\ index' = index + 1
                   /\ UNCHANGED <<mpc, glove>>
    /\ UNCHANGED <<df, sample_rate, waits, exit>>

(* lines 59, 81-82: int() raises on a send decision, the exception is      *)
(* caught by the generic handler                                           *)
MainRowRaises ==
    /\ mpc = "loop"
    /\ index < Len(df)
    /\ index % sample_rate = 0
    /\ IntRaises(df[index + 1])
    /\ time_to_wait' = time_to_wait + df[index + 1].dt
    /\ exit' = Exit("error", client \in link)
    /\ mpc' = "finally"
    /\ UNCHANGED <<glove, df, sample_rate, index, waits>>

(* lines 70-73: the sleep returns *)
MainWake ==
    /\ mpc = "sleep"
    /\ waits' = Append(waits, time_to_wait)
    /\ time_to_wait' = 0
    /\ index' = index + 1
    /\ mpc' = "loop"
    /\ UNCHANGED <<glove, df, sample_rate, exit>>

(* lines 79-80: the sleep is cancelled, CancelledError is caught *)
MainCancel ==
    /\ mpc = "sleep"
    /\ exit' = Exit("cancelled", client \in link)
    /\ mpc' = "finally"
    /\ UNCHANGED <<glove, df, sample_rate, index, time_to_wait, waits>>

(* Variant of MainReset that resets only after at least one row *)
MainReset_SkipsEmpty ==
    /\ mpc = "loop"
    /\ index >= Len(df)
    /\ IF df = <<>> THEN UNCHANGED glove
       ELSE SetAllServosBatch(<<0, 0, 0, 0, 0>>)
    /\ exit' = Exit("finished", client \in link)
    /\ mpc' = "finally"
    /\ UNCHANGED <<df, sample_rate, index, time_to_wait, waits>>

(* lines 75-77: the loop is over, the servos are reset *)
MainReset ==
    /\ mpc = "loop"
    /\ index >= Len(df)
    /\ SetAllServosBatch(<<0, 0, 0, 0, 0>>)
    /\ exit' = Exit("finished", client \in link)
    /\ mpc' = "finally"
    /\ UNCHANGED <<df, sample_rate, index, time_to_wait, waits>>

(* lines 83-86: finally *)
MainFinally ==
    /\ mpc = "finally"
    /\ IF is_connected
       THEN /\ DisconnectCall
            /\ mpc' = "closing"
       ELSE /\ mpc' = "done"
            /\ UNCHANGED glove
    /\ UNCHANGED <<df, sample_rate, index, time_to_wait, waits, exit>>

(* line 86: disconnect() returned, main() returns *)
MainClosed ==
    /\ mpc = "closing"
    /\ pc = "idle"
    /\ mpc' = "done"
    /\ UNCHANGED <<glove, df, sample_rate, index, time_to_wait, waits, exit>>

ReplayNext ==
    \/ MainLoad
    \/ MainConnect
    \/ MainAwaits /\ ConnectOpenFailed /\ UNCHANGED replay
    \/ MainAwaits /\ UNCHANGED replay /\ \E services \in Peers : ConnectOpened(services)
    \/ MainAwaits /\ UNCHANGED replay /\ \E o \in CloseOutcomes : ConnectClosed(o)
    \/ MainAwaits /\ UNCHANGED replay /\ \E o \in CloseOutcomes : DisconnectClosed(o)
    \/ MainConnected
    \/ MainRow
    \/ MainRowRaises
    \/ MainWake
    \/ MainCancel
    \/ MainReset
    \/ MainFinally
    \/ MainClosed

ReplaySpec == Init /\ [][ReplayNext]_vars

----------------------------------------------------------------------------
(* Properties *)

Last(s) == s[Len(s)]

SendOps == {"_send_command", "set_servo_angle", "set_all_servos_batch",
            "set_all_servos_angle"}

(* The last step printed message m *)
Printed(m) == \E i \in DOMAIN ev.out : ev.out[i] = m

NotConnectedMsg == "Not connected to BLE device. Cannot send command."

(* C1: whenever no call is in progress, a write endpoint is held          *)
(* (write_char_object is set) exactly when is_connected is true.           *)
C1_EndpointIffReady ==
    pc = "idle" => ((write_char_object # NoChar) <=> is_connected)

(* C2: when connect() has returned False, the link of its client is closed *)
(* and is_connected is false.                                              *)
C2_FailedConnectIsClosed ==
    (pc = "idle" /\ ev.op = "connect" /\ ev.ret = PyBool(FALSE))
        => (client \notin link /\ ~is_connected)

(* C3: a send-family call made while is_connected is false, and a          *)
(* read_data call made while is_connected is false or read_char_object is  *)
(* unset, issue no transport call.                                         *)
C3_NoIoOutsideReady ==
    [][ /\ (ev'.op \in SendOps /\ ~is_connected) => calls' = calls
        /\ (ev'.op = "read_data" /\ (~is_connected \/ read_char_object = NoChar))
              => calls' = calls ]_vars

C3_Witness ==
    /\ ev.op = "set_all_servos_batch"
    /\ Printed(NotConnectedMsg)
    /\ ~is_connected
    /\ calls # <<>>
    /\ Last(calls).op = "disconnect"

(* C4: a send that did not deliver its frame (called while not connected,  *)
(* or its transport write raised) returns something other than what a      *)
(* delivered send returns, which is None.                                  *)
C4_UndeliveredSendIsReported ==
    (ev.op \in SendOps /\ (Printed(NotConnectedMsg) \/ Printed("Error sending command")))
        => ev.ret # PyNone

(* C5: a step in which a transport write or read raised leaves client,     *)
(* is_connected and both endpoints as they were, with is_connected true    *)
(* and a client present, so that the next send passes its check and        *)
(* reaches the transport.                                                  *)
IoFailedStep ==
    \E i \in DOMAIN calls' :
        i > Len(calls) /\ calls'[i].op \in {"write", "read"} /\ ~calls'[i].ok

C5_IoFailureKeepsSession ==
    [][ IoFailedStep => (UNCHANGED ctl /\ is_connected' /\ client' # NoClient) ]_vars

C5_Witness ==
    /\ is_connected
    /\ \E i \in DOMAIN calls :
          /\ i < Len(calls)
          /\ calls[i].op = "write" /\ ~calls[i].ok
          /\ calls[i + 1].op = "write"

(* C6: connect() called while is_connected is true returns True and        *)
(* changes neither the controller's fields nor the transport: no new       *)
(* client, no call, no enumeration.                                        *)
C6_ConnectWhenReadyIsNoOp ==
    [][ (pc = "idle" /\ is_connected /\ ev'.op = "connect")
          => (ev'.ret = PyBool(TRUE) /\ UNCHANGED <<ctl, pc, link, calls>>) ]_vars

C6_Witness ==
    ev.op = "connect" /\ Printed("Already connected.") /\ is_connected /\ calls # <<>>

(* C7: once the transport's connect has raised, connect() has returned     *)
(* (nothing is pending), it returned False, and is_connected is false.     *)
C7_OpenFailureReturnsFalse ==
    (calls # <<>> /\ Last(calls).op = "connect" /\ ~Last(calls).ok)
        => /\ pc = "idle"
           /\ ~is_connected
           /\ ev.op = "connect" => ev.ret = PyBool(FALSE)

C7_Witness ==
    /\ calls # <<>> /\ Last(calls).op = "connect" /\ ~Last(calls).ok
    /\ ev.op = "connect" /\ ev.ret = PyBool(FALSE)

(* C8: when disconnect() has returned after acting on a connected          *)
(* controller, is_connected is false and the client's link is closed.      *)
C8_DisconnectAlwaysDisconnects ==
    (pc = "idle" /\ ev.op = "disconnect" /\ ~Printed("Not connected."))
        => (~is_connected /\ client \notin link)

(* C9: while no write of the current client has raised, the data of its    *)
(* write calls are, in order, the frames of the commands accepted on it,   *)
(* in the order they were submitted.                                       *)
WrittenData ==
    LET w == SelectSeq(calls, LAMBDA c : c.op = "write")
    IN  [i \in 1 .. Len(w) |-> w[i].data]

RECURSIVE ExpectedFrames(_)
ExpectedFrames(cmds) ==
    IF cmds = <<>> THEN <<>>
    ELSE [i \in 1 .. Len(Head(cmds).inputs) |-> Frame(Head(cmds).inputs[i])]
         \o ExpectedFrames(Tail(cmds))

NoWriteFailure == \A i \in DOMAIN calls : calls[i].op = "write" => calls[i].ok

C9_FramesInSubmissionOrder ==
    NoWriteFailure => WrittenData = ExpectedFrames(submitted)

C9_Witness ==
    /\ NoWriteFailure
    /\ Len(submitted) = 2
    /\ submitted[1].op = "set_all_servos_angle"
    /\ submitted[2] = submitted[1]
    /\ Len(WrittenData) = 10

(* C10: when main() has ended after its sleep was cancelled while the link *)
(* was open, the last two transport calls are the write of the neutral     *)
(* reset frame A0$B0$C0$D0$E0$ and the disconnect.                         *)
ResetFrame == CommandParts(<<0, 0, 0, 0, 0>>, 1)

C10_CancelStillResets ==
    (mpc = "done" /\ exit.path = "cancelled" /\ exit.linked)
        => /\ Len(calls) >= 2
           /\ calls[Len(calls)].op = "disconnect"
           /\ calls[Len(calls) - 1].op = "write"
           /\ calls[Len(calls) - 1].data = ResetFrame

(* C11: the replay alternates send and wait, the k-th command sent is the  *)
(* one of the row at index (k-1)*stride and the k-th wait is the sum of    *)
(* the delta times of the rows after the previous sent row up to that row; *)
(* as claimed, on normal completion the waits add up to the delta times of *)
(* all rows of the recording.                                              *)
RECURSIVE SumDt(_, _, _)
SumDt(rows, a, b) == IF a > b THEN 0 ELSE rows[a].dt + SumDt(rows, a + 1, b)

RECURSIVE SeqSum(_)
SeqSum(q) == IF q = <<>> THEN 0 ELSE Head(q) + SeqSum(Tail(q))

(* Position in df of the k-th row that is sent *)
SendRow(k) == (k - 1) * sample_rate + 1

(* Position in df of the last row that is sent, 0 for an empty recording *)
LastSendRow == IF df = <<>> THEN 0 ELSE SendRow((Len(df) - 1) \div sample_rate + 1)

WaitsFollowSends ==
    /\ mpc = "loop" => Len(submitted) = Len(waits)
    /\ mpc = "sleep" => Len(submitted) = Len(waits) + 1
    /\ \A k \in DOMAIN waits :
          /\ SendRow(k) <= Len(df)
          /\ k <= Len(submitted)
          /\ submitted[k].inputs = <<CommandParts(Angles(df[SendRow(k)]), 1)>>
          /\ waits[k] = SumDt(df, IF k = 1 THEN 1 ELSE SendRow(k - 1) + 1, SendRow(k))

C11_WaitsSumToRecording ==
    /\ WaitsFollowSends
    /\ exit.path = "finished" => SeqSum(waits) = SumDt(df, 1, Len(df))

(* C11 as amended: on normal completion there is one wait per sent row and *)
(* the waits add up to the delta times of the rows up to the last row sent *)
(* (the rows after it are accumulated but never waited for).               *)
C11_WaitsSumToLastSend ==
    /\ WaitsFollowSends
    /\ exit.path = "finished"
          => /\ Len(waits) = (IF df = <<>> THEN 0
                               ELSE (Len(df) - 1) \div sample_rate + 1)
             /\ SeqSum(waits) = SumDt(df, 1, LastSendRow)

C11_Witness ==
    /\ mpc = "done" /\ exit.path = "finished"
    /\ sample_rate = 2 /\ Len(df) = 3
    /\ waits = <<5, 8>>

(* C12: when the loop has run to the end of the recording, the neutral     *)
(* reset frame is the last command sent, one command after the last wait,  *)
(* and when main() has returned it is the last write before the            *)
(* disconnect; an empty recording included.                                *)
IsResetWrite(c) == c.op = "write" /\ c.data = ResetFrame

C12_FinishedEndsWithReset ==
    /\ (mpc = "finally" /\ exit.path = "finished")
          => /\ calls # <<>> /\ IsResetWrite(Last(calls))
             /\ Len(submitted) = Len(waits) + 1
             /\ Last(submitted).inputs = <<ResetFrame>>
    /\ (mpc = "done" /\ exit.path = "finished")
          => /\ Len(calls) >= 2
             /\ Last(calls).op = "disconnect"
             /\ IsResetWrite(calls[Len(calls) - 1])

C12_Witness ==
    /\ mpc = "done" /\ exit.path = "finished"
    /\ df = <<>>
    /\ Len(calls) = 3
    /\ IsResetWrite(calls[2]) /\ calls[2].ok
    /\ calls[3].op = "disconnect"

(* The step is a send-family call (the one command of a CodecSpec run) *)
CommandStep == Len(args) = 0 /\ Len(args') > 0

Ready == is_connected /\ client # NoClient

(* The step passes exactly one write to the transport, with payload `data` *)
WritesOnce(data) ==
    /\ Len(calls') = Len(calls) + 1
    /\ Last(calls').op = "write"
    /\ Last(calls').client = client
    /\ Last(calls').data = data

NearestBound(a) == IF a < 0 THEN 0 ELSE IF a > 180 THEN 180 ELSE a

(* One sub-command of the wire protocol: letter, decimal value, '$' *)
SubCommand(letter, a) == <<letter>> \o IntStr(NearestBound(a)) \o <<"$">>

BatchPayload(a) ==
    SubCommand("A", a[1]) \o SubCommand("B", a[2]) \o SubCommand("C", a[3])
        \o SubCommand("D", a[4]) \o SubCommand("E", a[5])

(* C13: set_all_servos_batch called with five angles while is_connected is *)
(* true passes exactly one write to the transport, whose payload is        *)
(* A<a0>$B<a1>$C<a2>$D<a3>$E<a4>$ with each angle moved into [0,180] and   *)
(* nothing appended after the last '$'.                                    *)
C13_BatchIsOneFrame ==
    [][ (CommandStep /\ ev'.op = "set_all_servos_batch" /\ Len(args'[1]) = 5 /\ Ready)
          => WritesOnce(BatchPayload(args'[1])) ]_vars

C13_Witness ==
    /\ ev.op = "set_all_servos_batch"
    /\ args = << <<0 - 5, 200, 0, 180, 90>> >>
    /\ calls # <<>>
    /\ Last(calls).op = "write" /\ Last(calls).ok
    /\ Last(calls).data = <<"A", "0", "$", "B", "1", "8", "0", "$", "C", "0", "$",
                            "D", "1", "8", "0", "$", "E", "9", "0", "$">>

(* C14: set_servo_angle called with an index outside 0..5, and             *)
(* set_all_servos_batch called with a list of other than five angles,      *)
(* hand nothing to _send_command and issue no transport call, whatever     *)
(* state the session is in.                                                *)
InvalidArgument ==
    \/ ev'.op = "set_servo_angle" /\ args'[1] \notin 0 .. 5
    \/ ev'.op = "set_all_servos_batch" /\ Len(args'[1]) # 5

C14_InvalidArgumentWritesNothing ==
    [][ (CommandStep /\ InvalidArgument)
          => (calls' = calls /\ submitted' = submitted) ]_vars

C14_Witness ==
    /\ ev.op = "set_all_servos_batch"
    /\ args = << <<1, 2, 3, 4, 5, 6>> >>
    /\ is_connected /\ client \in link
    /\ Len(calls) = 1 /\ submitted = <<>>

(* C15: set_servo_angle, in glove_controller.py and in main_bleak.py,      *)
(* called with an index in 0..5 and any angle while is_connected is true   *)
(* passes exactly one write to the transport: the letter of the index, the *)
(* angle moved to the nearest bound of [0,180], and '$'.                   *)
LetterOf(i) == <<"A", "B", "C", "D", "E", "F">>[i + 1]

ServoStep(ops) ==
    CommandStep /\ ev'.op \in ops /\ args'[1] \in 0 .. 5 /\ Ready

C15_AngleIsClamped ==
    [][ ServoStep({"set_servo_angle", "main_bleak.set_servo_angle"})
          => WritesOnce(SubCommand(LetterOf(args'[1]), args'[2])) ]_vars

(* The same for the set_servo_angle of glove_controller.py alone *)
GloveAngleIsClamped ==
    [][ ServoStep({"set_servo_angle"})
          => WritesOnce(SubCommand(LetterOf(args'[1]), args'[2])) ]_vars

(* C16: a raw line sent by _send_command, or typed to main_bleak.py's      *)
(* loop, while is_connected is true is written once: unchanged when it     *)
(* ends with '$', with one '$' added otherwise; every frame written ends   *)
(* with '$', and the append applied to a written frame leaves it as it is. *)
WithDelimiter(text) ==
    IF Len(text) > 0 /\ text[Len(text)] = "$" THEN text ELSE Append(text, "$")

(* The payloads of the writes the step passes to the transport *)
NewWrites ==
    LET w == SelectSeq(SubSeq(calls', Len(calls) + 1, Len(calls')),
                       LAMBDA c : c.op = "write")
    IN  [i \in 1 .. Len(w) |-> w[i].data]

C16_DelimiterAppendedOnce ==
    [][ /\ (CommandStep /\ ev'.op \in {"_send_command", "main_bleak.main"} /\ Ready)
              => NewWrites = <<WithDelimiter(args'[1])>>
        /\ \A i \in DOMAIN NewWrites :
              /\ Last(NewWrites[i]) = "$"
              /\ Frame(NewWrites[i]) = NewWrites[i] ]_vars

C16_Witness ==
    /\ ev.op = "_send_command"
    /\ args = << <<"Z", "1", "$", "$">> >>
    /\ calls # <<>> /\ Last(calls).op = "write"
    /\ Last(calls).data = <<"Z", "1", "$", "$">>

(* C17: when connect() has returned after the transport connection opened, *)
(* it returned True exactly when some enumerated service matches FFF0 in   *)
(* short or expanded form and the first such service has a characteristic  *)
(* matching the write identifier.                                          *)
SpecServiceMatches(u) ==
    Upper(u) \in {"FFF0", "0000FFF0-0000-1000-8000-00805F9B34FB"}

Resolvable(services) ==
    \E i \in DOMAIN services :
        /\ SpecServiceMatches(services[i].uuid)
        /\ \A j \in 1 .. i - 1 : ~SpecServiceMatches(services[j].uuid)
        /\ \E k \in DOMAIN services[i].characteristics :
              Upper(services[i].characteristics[k]) = "0000FFE1-0000-1000-8000-00805F9B34FB"

(* connect() has returned and its client.connect() had succeeded *)
ConnectReturnedAfterOpen ==
    /\ pc = "idle" /\ ev.op = "connect" /\ ~Printed("Already connected.")
    /\ calls # <<>> /\ calls[1].op = "connect" /\ calls[1].ok

C17_ConnectSucceedsIffResolvable ==
    ConnectReturnedAfterOpen
        => (ev.ret = PyBool(TRUE) <=> Resolvable(calls[1].data))

(* C18: when connect() has returned True on a connection whose first       *)
(* matching service has a child with the write identifier, the write       *)
(* endpoint is the first such child of that service on that connection,    *)
(* and the read endpoint the first child with the read identifier.         *)
FirstService(services) ==
    CHOOSE i \in DOMAIN services :
        /\ SpecServiceMatches(services[i].uuid)
        /\ \A j \in 1 .. i - 1 : ~SpecServiceMatches(services[j].uuid)

FirstChild(svc, id) ==
    CHOOSE k \in DOMAIN svc.characteristics :
        /\ Upper(svc.characteristics[k]) = id
        /\ \A j \in 1 .. k - 1 : Upper(svc.characteristics[j]) # id

C18_FirstMatchingChild ==
    (ConnectReturnedAfterOpen /\ ev.ret = PyBool(TRUE) /\ Resolvable(calls[1].data))
        => LET svc == calls[1].data[FirstService(calls[1].data)]
               w   == FirstChild(svc, "0000FFE1-0000-1000-8000-00805F9B34FB")
           IN  /\ write_char_object =
                      [uuid |-> svc.characteristics[w], conn |-> client, idx |-> w]
               /\ read_char_object = write_char_object

(* C19: while main() sleeps after a send decision, the command it sent for *)
(* the row carries, for each finger value v, round(v * 180) moved into     *)
(* [0,180].                                                                *)
(* round() of the rational a / b, b > 0: to the nearest integer, a half to *)
(* the even one                                                            *)
Round(a, b) ==
    LET q == a \div b
        r == a % b
    IN  IF 2 * r < b THEN q
        ELSE IF 2 * r > b THEN q + 1
        ELSE IF q % 2 = 0 THEN q ELSE q + 1

RoundedAngles(row) == [k \in 1 .. 5 |-> Round(row.f[k] * 180, ValueDen)]

C19_AnglesAreRounded ==
    mpc = "sleep"
        => Last(submitted).inputs = <<BatchPayload(RoundedAngles(df[index + 1]))>>

(* C20: when main() has returned after a successful connect, by normal     *)
(* completion, by cancellation or by an exception in the loop,             *)
(* is_connected is false and the link of the client is closed.             *)
C20_ReplayEndsDisconnected ==
    (mpc = "done" /\ exit.path \in {"finished", "cancelled", "error"})
        => (~is_connected /\ client \notin link)

(* C21: when connect() has returned True after opening a connection, the   *)
(* write endpoint held, and the read endpoint if one is held, is a         *)
(* characteristic of that connection and of a service list that has one    *)
(* to resolve: none is left over from an earlier client.                   *)
C21_EndpointsOfThisConnection ==
    (ConnectReturnedAfterOpen /\ ev.ret = PyBool(TRUE))
        => /\ Resolvable(calls[1].data)
           /\ write_char_object # NoChar
           /\ write_char_object.conn = client
           /\ read_char_object # NoChar => read_char_object.conn = client

(* C22: no step, a send interleaved at an await of connect() or            *)
(* disconnect() included, passes a write to the transport without a write  *)
(* characteristic or while connect() awaits the close of its connection.   *)
C22_NoWriteWithoutEndpoint ==
    [][ \A i \in DOMAIN calls' :
          (i > Len(calls) /\ calls'[i].op = "write")
              => (calls'[i].char # NoChar /\ pc # "connect_close") ]_vars

====
